---- MODULE Spec2Model ----
(***************************************************************************)
(* Docklord coordinator: the message-routing engine.                       *)
(*                                                                         *)
(* One gRPC "conversation" session per connected node (an egress task, an  *)
(* ingress task and a supervisor), the Presence Registry (nodes), the      *)
(* Pending Table (pending), the Command Bus (a tokio broadcast channel)    *)
(* and the six REST handlers that insert a pending entry, publish a        *)
(* command and await the reply under a deadline; the WebSocket sessions    *)
(* that observe a node's event bus; and the assembly that runs the RPC and *)
(* HTTP listeners.                                                         *)
(***************************************************************************)
EXTENDS Integers, Sequences, FiniteSets, TLC

(***************************************************************************)
(* Bounds of the model.                                                    *)
(***************************************************************************)
\* gRPC streams that may be opened during a run.
Sessions == {"s1", "s2"}
\* UUIDv4 request ids; each is generated by at most one REST call.
Requests == {"R1", "R2"}
\* (node_id, password) pairs that nodes and callers may present.
Creds == {<<"n1", "good">>, <<"n1", "bad">>, <<"n2", "good">>}
\* Capacity of the per-session outbound mpsc channel (32 in the source),
\* scaled so that a full channel is reachable.
SERVER_CHANNEL_CAPACITY == 1
\* Capacity of the Command Bus broadcast channel (2048 in the source), scaled.
CMD_BUS_CAPACITY == 1
\* WebSocket connections that may be upgraded during a run.
WsSessions == {"w1"}
\* Capacity of a per-node event bus broadcast channel (1024 in the source),
\* scaled.
NODE_CHANNEL_CAPACITY == 1
\* Frames kept of what a WebSocket session wrote to its client.
MaxFrames == 2
\* Capacity of the node agent's outgoing mpsc channel (100 in the source),
\* scaled; the agent's first two envelopes fit.
NODE_TX_CAPACITY == 2

None == "None"

(***************************************************************************)
(* Protocol vocabulary (proto::generated).                                 *)
(***************************************************************************)
RequestType == {"GetContainers", "GetContainersWithStatus", "GetContainerStatus",
                "StartContainer", "StopContainer", "DeleteContainer",
                "GetContainerLogs", "UpdateContainerInfo"}

ResponseKind == {"NodeContainers", "NodeContainersWithStatus", "ContainerStatus",
                 "ContainerLogs", "ContainerAction", "Error"}

Endpoints == {"list", "status", "start", "stop", "delete", "logs"}

\* Container lists a node may report (entries of NodeContainersWithStatus).
ContainerLists == {<<>>, <<[container_id |-> "alpha", status |-> "running"],
                           [container_id |-> "beta", status |-> "exited"]>>}

NodeErrorMessages == {"no such container"}

\* request_key.request_id: Value(string) | Unspecific(bool) | absent
ValueId(r) == [tag |-> "Value", value |-> r]
UnspecificId == [tag |-> "Unspecific", value |-> "true"]
NoId == [tag |-> None, value |-> None]

RequestKey(t, rid) == [request_type |-> t, request_id |-> rid]

\* Envelope{payload: NodeResponse{kind, ...}}
NodeResponse(kind, key, containers, message) ==
    [payload |-> "NodeResponse", kind |-> kind, request_key |-> key,
     containers |-> containers, message |-> message]

\* No envelope (an empty one-shot channel).
NoEnvelope == [payload |-> None, kind |-> None,
               request_key |-> RequestKey(None, NoId), containers |-> <<>>, message |-> ""]

\* Envelope{payload: ServerCommand{kind}}
AuthRequest(k) == [payload |-> "ServerCommand", kind |-> "AuthRequest",
                   node_id |-> k[1], password |-> k[2]]
GetServerStatus == [payload |-> "ServerCommand", kind |-> "GetServerStatus",
                    node_id |-> None, password |-> None]
ServerCommandsFor(NK) == {AuthRequest(k) : k \in NK} \cup {GetServerStatus}

\* Envelopes ingress ignores: no payload, or a payload of another family.
OtherEnvelopes == {[payload |-> None, kind |-> None],
                   [payload |-> "NodeCommand", kind |-> "StartContainer"],
                   [payload |-> "ServerResponse", kind |-> "ServerStatus"]}

\* Envelope{payload: NodeCommand{kind{request_id, ...}}}
NodeCommand(kind, r) == [payload |-> "NodeCommand", kind |-> kind, request_id |-> r]

\* Envelope{payload: ClientCommand{GetClientContainers{request_id}}}: the
\* priming command of a WebSocket session, with its own fresh UUIDv4.
WsRequestId(w) == IF w = "w1" THEN "W1" ELSE "W2"

GetClientContainers(w) ==
    [payload |-> "ClientCommand", kind |-> "GetClientContainers",
     request_id |-> WsRequestId(w)]

\* ServerResponse/ServerStatus{status = "running", uptime}
ServerStatusEnvelope == [payload |-> "ServerResponse", kind |-> "ServerStatus",
                         request_id |-> None]

\* ServerRequestByUser{envelope, id, password}
ServerRequestByUser(envelope, id, password) ==
    [envelope |-> envelope, id |-> id, password |-> password]

\* No request (egress holds nothing).
NoRequest == ServerRequestByUser(NodeCommand(None, None), None, None)

(***************************************************************************)
(* AuthState (lib-coordinator-core/src/auth_state.rs).                     *)
(***************************************************************************)
AuthDefault == [id |-> None, password |-> None]

\* An authentication that keeps the id and stores a fixed password.
authenticate_id_only(id, password) == [id |-> id, password |-> "good"]

authenticate(id, password) == [id |-> id, password |-> password]

\* A check that never finds the session authenticated.
is_authenticated_never(auth) == FALSE

is_authenticated(auth) == auth.id # None /\ auth.password # None

is_match_id_only(auth, id, password) ==
    IF auth.id # None /\ auth.password # None THEN auth.id = id ELSE FALSE

is_match(auth, id, password) ==
    IF auth.id # None /\ auth.password # None
    THEN auth.id = id /\ auth.password = password
    ELSE FALSE

\* A drain that finds no credentials.
take_no_credentials(auth) == [some |-> FALSE, creds |-> <<None, None>>, auth |-> auth]

take_credentials(auth) ==
    IF is_authenticated(auth)
    THEN [some |-> TRUE, creds |-> <<auth.id, auth.password>>, auth |-> AuthDefault]
    ELSE [some |-> FALSE, creds |-> <<None, None>>, auth |-> auth]

(***************************************************************************)
(* REST facade (lib-coordinator-rest).                                     *)
(***************************************************************************)
\* The RequestType each handler registers its pending entry under.
EndpointRequestType(ep) ==
    CASE ep = "list"   -> "GetContainersWithStatus"
      [] ep = "status" -> "GetContainerStatus"
      [] ep = "start"  -> "StartContainer"
      [] ep = "stop"   -> "StopContainer"
      [] ep = "delete" -> "DeleteContainer"
      [] ep = "logs"   -> "GetContainerLogs"

\* The node_command::Kind each handler puts in its envelope.
EndpointCommandKind(ep) ==
    CASE ep = "list"   -> "GetNodeContainersWithStatus"
      [] ep = "status" -> "GetContainerStatus"
      [] ep = "start"  -> "StartContainer"
      [] ep = "stop"   -> "StopContainer"
      [] ep = "delete" -> "DeleteContainer"
      [] ep = "logs"   -> "GetContainerLogs"

\* The reply kind whose fields the handler copies into the 200 body.
EndpointReplyKind(ep) ==
    CASE ep = "list"   -> "NodeContainersWithStatus"
      [] ep = "status" -> "ContainerStatus"
      [] ep = "logs"   -> "ContainerLogs"
      [] OTHER         -> "ContainerAction"

extract_node_error_from_response(response) ==
    IF response.payload = "NodeResponse" /\ response.kind = "Error"
    THEN response.message
    ELSE None

extract_containers_from_plain_list(response) ==
    IF response.payload = "NodeResponse" /\ response.kind = "NodeContainers"
    THEN [i \in 1..Len(response.containers) |->
            [container_id |-> response.containers[i].container_id,
             status |-> response.containers[i].status]]
    ELSE <<>>

extract_containers_with_status_from_response(response) ==
    IF response.payload = "NodeResponse" /\ response.kind = "NodeContainersWithStatus"
    THEN [i \in 1..Len(response.containers) |->
            [container_id |-> response.containers[i].container_id,
             status |-> response.containers[i].status]]
    ELSE <<>>

\* extract_container_status / _action / _logs: Some(json of the reply), here
\* <<kind of the reply>>, when the reply is of the handler's kind; null,
\* here <<>>, otherwise.
extract_typed_from_response(ep, response) ==
    IF response.payload = "NodeResponse" /\ response.kind = EndpointReplyKind(ep)
    THEN <<response.kind>>
    ELSE <<>>

\* HTTP outcomes.
NoResponse == [status |-> 0, id |-> None, message |-> None, detail |-> None, body |-> <<>>]

HttpResponse(status, id, message, detail, body) ==
    [status |-> status, id |-> id, message |-> message, detail |-> detail, body |-> body]

PublishFailureResponse ==
    HttpResponse(500, None, "Failed to send request to server", None, <<>>)

ChannelClosedResponse(r) ==
    HttpResponse(500, r, "Response channel closed", "Node dropped oneshot channel", <<>>)

TimeoutResponse(ep, r) ==
    IF ep = "list"
    THEN HttpResponse(408, r, "No response from node", "Timeout waiting for node response", <<>>)
    ELSE HttpResponse(408, r, "Timeout waiting for node response",
                      "Timeout waiting for node response", <<>>)

\* The Ok(Ok(response)) arm of each handler.
ReplyResponse(ep, r, response) ==
    IF ep = "list"
    THEN HttpResponse(200, r, None, None,
                      extract_containers_with_status_from_response(response))
    ELSE IF extract_node_error_from_response(response) # None
         THEN HttpResponse(400, r, "Node error",
                           extract_node_error_from_response(response), <<>>)
         ELSE HttpResponse(200, r, None, None, extract_typed_from_response(ep, response))

\* Whether the handler calls pending.remove on its non-success arms
\* (get_containers does not).
RemovesOnFailure(ep) == ep # "list"

(***************************************************************************)
(* The node: a black box that may put any of these envelopes on its        *)
(* stream, in any order and any number of times.                           *)
(***************************************************************************)
\* Replies that carry RequestKey (type of endpoint ep, Value(r)): the typed
\* reply of the endpoint, an Error, and a reply of a kind the handler does
\* not expect.
RepliesTo(r, ep) ==
    LET key == RequestKey(EndpointRequestType(ep), ValueId(r)) IN
    { NodeResponse(EndpointReplyKind(ep), key, c, "") :
        c \in IF ep = "list" THEN ContainerLists ELSE {<<>>} }
    \cup { NodeResponse("Error", key, <<>>, m) : m \in NodeErrorMessages }
    \cup { NodeResponse("NodeContainers", key, <<>>, "") }

\* The responses a node may send when the calls it serves use endpoints EP.
NodeResponsesOf(RR, EP) ==
    UNION { RepliesTo(r, ep) : r \in RR, ep \in EP }
    \cup
    \* handle_get_client_containers: NodeContainers keyed (GetContainers, Value(r))
    { NodeResponse("NodeContainers", RequestKey("GetContainers", ValueId(r)), c, "") :
        r \in RR, c \in ContainerLists \ {<<>>} }
    \cup
    \* a spontaneous update, a NodeResponse with no kind, one with no request_key
    { NodeResponse("NodeContainers", RequestKey("UpdateContainerInfo", UnspecificId),
                   <<>>, ""),
      NodeResponse(None, RequestKey(None, NoId), <<>>, ""),
      NodeResponse("NodeContainers", RequestKey(None, NoId), <<>>, "") }

\* watch_container_changes: the update a node sends on a container event.
SpontaneousUpdate ==
    NodeResponse("NodeContainers", RequestKey("UpdateContainerInfo", UnspecificId), <<>>, "")

\* NK: the credentials nodes may present; RR: the request ids they may quote.
\* A request id no REST call generated.
UnknownRequestId == "R0"

NodeResponsesFor(RR) == NodeResponsesOf(RR, Endpoints)

InboundEnvelopesOf(NK, RR, EP) ==
    ServerCommandsFor(NK) \cup NodeResponsesOf(RR \cup {UnknownRequestId}, EP)
        \cup OtherEnvelopes

InboundEnvelopesFor(NK, RR) == InboundEnvelopesOf(NK, RR, Endpoints)

(***************************************************************************)
(* State.                                                                  *)
(***************************************************************************)
VARIABLES
    conn,           \* per session: "none" | "open" | "ended" (the gRPC stream)
    auth_state,     \* per session: AuthState behind the session mutex
    nodes,          \* Presence Registry: key -> session whose sender is stored
    pending,        \* Pending Table: set of (request_id, request_type) keys
    oneshot,        \* per request id: the one-shot channel of its pending entry
    server_cmd_rx,  \* per session: unread Command Bus messages of its egress
    lagged,         \* per session: its Command Bus receiver was overrun
    egress,         \* per session: server_to_node task
    egress_hold,    \* per session: envelope egress waits to send
    ingress,        \* per session: node_to_server task
    outbound,       \* per session: outbound mpsc channel (server -> node)
    rest,           \* per request id: the REST call that generated it
    seen,           \* per session: request ids its node has read from the stream
    forwarded,      \* log of outbound_tx.send by egress
    deliveries,     \* per request id: successful sends on its one-shot channel
    ws,             \* per WebSocket session: handle_socket and its receiver
    listeners,      \* the grpc_handle and http_handle tasks of the assembly
    runner,         \* run_with_ready_callback: "running" | "ok" | "err"
    tx_out          \* per session: the node agent's outgoing mpsc channel

vars == <<conn, auth_state, nodes, pending, oneshot, server_cmd_rx, lagged,
          egress, egress_hold, ingress, outbound, rest, seen, forwarded, deliveries,
          ws, listeners, runner, tx_out>>

\* What every step but ingress handling an envelope leaves alone.
other_vars == <<ws, listeners, runner, tx_out>>

IdleCall == [pc |-> "idle", endpoint |-> None, node_id |-> None, password |-> None,
             present |-> {}, response |-> NoResponse]

EmptyOneshot == [state |-> "none", value |-> NoEnvelope]

\* A WebSocket connection that has not been upgraded yet.
IdleSocket == [pc |-> "idle", id |-> None, password |-> None, bus |-> None,
               rx |-> <<>>, lag |-> FALSE, frames |-> <<>>]

Init ==
    /\ conn = [s \in Sessions |-> "none"]
    /\ auth_state = [s \in Sessions |-> AuthDefault]
    /\ nodes = [k \in Creds |-> None]
    /\ pending = {}
    /\ oneshot = [r \in Requests |-> EmptyOneshot]
    /\ server_cmd_rx = [s \in Sessions |-> <<>>]
    /\ lagged = [s \in Sessions |-> FALSE]
    /\ egress = [s \in Sessions |-> "none"]
    /\ egress_hold = [s \in Sessions |-> NoRequest]
    /\ ingress = [s \in Sessions |-> "none"]
    /\ outbound = [s \in Sessions |-> <<>>]
    /\ rest = [r \in Requests |-> IdleCall]
    /\ seen = [s \in Sessions |-> {}]
    /\ forwarded = {}
    /\ deliveries = [r \in Requests |-> 0]
    /\ ws = [w \in WsSessions |-> IdleSocket]
    /\ listeners = [grpc |-> "running", http |-> "running"]
    /\ runner = "running"
    /\ tx_out = [s \in Sessions |-> <<>>]

(***************************************************************************)
(* Channels.                                                               *)
(***************************************************************************)
\* Sessions whose egress task holds a live Command Bus receiver.
Subscribers == {s \in Sessions : egress[s] \in {"running", "blocked"}}

\* broadcast::Sender::send: every live receiver sees the value; a receiver
\* that is CMD_BUS_CAPACITY behind loses its oldest value and is marked lagged.
BusQueueAfterSend(q, request) ==
    IF Len(q) >= CMD_BUS_CAPACITY THEN Append(Tail(q), request) ELSE Append(q, request)

\* The session mutex around AuthState is free.
AuthLockFree(s) == egress[s] # "blocked" /\ ingress[s] # "blocked"

OutboundHasSpace(s) == Len(outbound[s]) < SERVER_CHANNEL_CAPACITY

\* A Presence lookup that reports an entry under every key.
PresenceLookupAlwaysFound(k) == IF nodes[k] # None THEN nodes[k] ELSE "s1"

\* nodes.get(&(id, password)): the session whose sender is stored under the
\* key, or None.
PresenceLookup(k) == nodes[k]

\* server_cmd_tx.send(request): the receiver queues of the Command Bus after
\* the send (unchanged when no egress task is subscribed: the send fails).
CommandBusAfterSend(request) ==
    [s \in Sessions |->
        IF s \in Subscribers
        THEN BusQueueAfterSend(server_cmd_rx[s], request)
        ELSE server_cmd_rx[s]]

CommandBusLagAfterSend ==
    [s \in Sessions |->
        IF s \in Subscribers /\ Len(server_cmd_rx[s]) >= CMD_BUS_CAPACITY
        THEN TRUE ELSE lagged[s]]

(***************************************************************************)
(* RPC session (lib-coordinator-grpc/src/grpc_server_service.rs).          *)
(***************************************************************************)
\* conversation(): fresh auth state and outbound channel, both tasks spawned.
Connect(s) ==
    /\ runner = "running" /\ listeners.grpc = "running"
    /\ UNCHANGED other_vars
    /\ conn[s] = "none"
    /\ conn' = [conn EXCEPT ![s] = "open"]
    /\ auth_state' = [auth_state EXCEPT ![s] = AuthDefault]
    /\ outbound' = [outbound EXCEPT ![s] = <<>>]
    /\ egress' = [egress EXCEPT ![s] = "spawned"]
    /\ ingress' = [ingress EXCEPT ![s] = "running"]
    /\ UNCHANGED <<nodes, pending, oneshot, server_cmd_rx, lagged, egress_hold,
                   rest, seen, forwarded, deliveries>>

\* server_to_node task, first poll: server_cmd_tx.subscribe().
EgressSubscribe(s) ==
    /\ UNCHANGED other_vars
    /\ egress[s] = "spawned"
    /\ egress' = [egress EXCEPT ![s] = "running"]
    /\ server_cmd_rx' = [server_cmd_rx EXCEPT ![s] = <<>>]
    /\ lagged' = [lagged EXCEPT ![s] = FALSE]
    /\ UNCHANGED <<conn, auth_state, nodes, pending, oneshot, egress_hold, ingress,
                   outbound, rest, seen, forwarded, deliveries>>

\* The forwarding decision of egress for one received request.
ShouldForward(auth, request) ==
    /\ is_match(auth, request.id, request.password)
    /\ request.envelope.payload = "NodeCommand"

\* owner: the session whose sender the Presence Registry holds under the
\* request's credentials when the command is forwarded.
ForwardRecord(s, request) ==
    [session |-> s, auth |-> auth_state[s], request |-> request,
     owner |-> PresenceLookup(<<request.id, request.password>>)]

\* server_to_node task, one iteration of the loop.
EgressRecv(s) ==
    /\ UNCHANGED other_vars
    /\ egress[s] = "running"
    /\ IF lagged[s]
       THEN \* Err(Lagged): the task breaks out of the loop
            /\ egress' = [egress EXCEPT ![s] = "stopped"]
            /\ server_cmd_rx' = [server_cmd_rx EXCEPT ![s] = <<>>]
            /\ lagged' = [lagged EXCEPT ![s] = FALSE]
            /\ UNCHANGED <<outbound, egress_hold, forwarded>>
       ELSE /\ server_cmd_rx[s] # <<>>
            /\ AuthLockFree(s)
            /\ LET request == Head(server_cmd_rx[s]) IN
               IF ~ShouldForward(auth_state[s], request)
               THEN /\ server_cmd_rx' = [server_cmd_rx EXCEPT ![s] = Tail(@)]
                    /\ UNCHANGED <<egress, outbound, egress_hold, forwarded, lagged>>
               ELSE IF conn[s] = "ended"
               THEN \* outbound receiver dropped: send fails, the task breaks
                    /\ egress' = [egress EXCEPT ![s] = "stopped"]
                    /\ server_cmd_rx' = [server_cmd_rx EXCEPT ![s] = <<>>]
                    /\ UNCHANGED <<outbound, egress_hold, forwarded, lagged>>
               ELSE IF OutboundHasSpace(s)
               THEN /\ outbound' = [outbound EXCEPT ![s] = Append(@, request.envelope)]
                    /\ forwarded' = forwarded \cup {ForwardRecord(s, request)}
                    /\ server_cmd_rx' = [server_cmd_rx EXCEPT ![s] = Tail(@)]
                    /\ UNCHANGED <<egress, egress_hold, lagged>>
               ELSE \* outbound full: send().await parks with the auth lock held
                    /\ egress' = [egress EXCEPT ![s] = "blocked"]
                    /\ egress_hold' = [egress_hold EXCEPT ![s] = request]
                    /\ server_cmd_rx' = [server_cmd_rx EXCEPT ![s] = Tail(@)]
                    /\ UNCHANGED <<outbound, forwarded, lagged>>
    /\ UNCHANGED <<conn, auth_state, nodes, pending, oneshot, ingress, rest, seen,
                   deliveries>>

\* server_to_node task parked in outbound_tx.send: space appears or the
\* receiver is dropped.
EgressResume(s) ==
    /\ UNCHANGED other_vars
    /\ egress[s] = "blocked"
    /\ IF conn[s] = "ended"
       THEN /\ egress' = [egress EXCEPT ![s] = "stopped"]
            /\ server_cmd_rx' = [server_cmd_rx EXCEPT ![s] = <<>>]
            /\ lagged' = [lagged EXCEPT ![s] = FALSE]
            /\ UNCHANGED <<outbound, forwarded>>
       ELSE /\ OutboundHasSpace(s)
            /\ outbound' = [outbound EXCEPT ![s] = Append(@, egress_hold[s].envelope)]
            /\ forwarded' = forwarded \cup {ForwardRecord(s, egress_hold[s])}
            /\ egress' = [egress EXCEPT ![s] = "running"]
            /\ UNCHANGED <<server_cmd_rx, lagged>>
    /\ egress_hold' = [egress_hold EXCEPT ![s] = NoRequest]
    /\ UNCHANGED <<conn, auth_state, nodes, pending, oneshot, ingress, rest, seen,
                   deliveries>>

\* The node reads the next envelope of the response stream.
NodeRecv(s) ==
    /\ UNCHANGED other_vars
    /\ conn[s] = "open"
    /\ outbound[s] # <<>>
    /\ outbound' = [outbound EXCEPT ![s] = Tail(@)]
    /\ seen' = [seen EXCEPT ![s] = IF Head(outbound[s]).payload = "NodeCommand"
                                   THEN @ \cup {Head(outbound[s]).request_id}
                                   ELSE @]
    /\ UNCHANGED <<conn, auth_state, nodes, pending, oneshot, server_cmd_rx, lagged,
                   egress, egress_hold, ingress, rest, forwarded, deliveries>>

\* The node goes away: the inbound stream ends and the transport drops the
\* response stream (the receiver of the outbound channel).
NodeDisconnect(s) ==
    /\ UNCHANGED other_vars
    /\ conn[s] = "open"
    /\ conn' = [conn EXCEPT ![s] = "ended"]
    /\ outbound' = [outbound EXCEPT ![s] = <<>>]
    /\ seen' = [seen EXCEPT ![s] = {}]
    /\ UNCHANGED <<auth_state, nodes, pending, oneshot, server_cmd_rx, lagged,
                   egress, egress_hold, ingress, rest, forwarded, deliveries>>

\* Two node agents are processes outside the coordinator: the request ids one
\* of them has read can be passed to the other.
NodeShare(a, b) ==
    /\ UNCHANGED other_vars
    /\ a # b
    /\ conn[a] = "open" /\ conn[b] = "open"
    /\ ~(seen[a] \subseteq seen[b])
    /\ seen' = [seen EXCEPT ![b] = @ \cup seen[a]]
    /\ UNCHANGED <<conn, auth_state, nodes, pending, oneshot, server_cmd_rx, lagged,
                   egress, egress_hold, ingress, outbound, rest, forwarded, deliveries>>

(***************************************************************************)
(* Node agent (lib-node-grpc/src/grpc_client.rs).                          *)
(***************************************************************************)
\* What the local container engine returns to one handler: Ok with the
\* containers it lists, or Err.
EngineOutcomes ==
    { [ok |-> TRUE, containers |-> c] : c \in ContainerLists }
    \cup { [ok |-> FALSE, containers |-> <<>>] }

\* The NodeCommand kinds process_incoming_message has an arm for.
NodeCommandKinds == {"GetNodeContainers", "GetNodeContainersWithStatus",
                     "GetContainerStatus", "StartContainer", "StopContainer",
                     "DeleteContainer", "GetContainerLogs"}

\* Each handler below is the sequence of envelopes it sends on tx.
\* get_docker_containers().await.unwrap_or_default(): an engine error gives
\* the empty list.
handle_get_client_containers(request_id, outcome) ==
    << NodeResponse("NodeContainers", RequestKey("GetContainers", ValueId(request_id)),
                    outcome.containers, "") >>

handle_get_client_containers_with_status(request_id, outcome) ==
    << NodeResponse("NodeContainersWithStatus",
                    RequestKey("GetContainersWithStatus", ValueId(request_id)),
                    outcome.containers, "") >>

handle_get_container_status(request_id, outcome) ==
    LET key == RequestKey("GetContainerStatus", ValueId(request_id)) IN
    IF outcome.ok
    THEN << NodeResponse("ContainerStatus", key, <<>>, "") >>
    ELSE << NodeResponse("Error", key, <<>>, "no such container") >>

handle_start_container(request_id, outcome) ==
    LET key == RequestKey("StartContainer", ValueId(request_id)) IN
    IF outcome.ok
    THEN << NodeResponse("ContainerAction", key, <<>>, "") >>
    ELSE << NodeResponse("Error", key, <<>>, "no such container") >>

handle_stop_container(request_id, outcome) ==
    LET key == RequestKey("StopContainer", ValueId(request_id)) IN
    IF outcome.ok
    THEN << NodeResponse("ContainerAction", key, <<>>, "") >>
    ELSE << NodeResponse("Error", key, <<>>, "no such container") >>

handle_delete_container(request_id, outcome) ==
    LET key == RequestKey("DeleteContainer", ValueId(request_id)) IN
    IF outcome.ok
    THEN << NodeResponse("ContainerAction", key, <<>>, "") >>
    ELSE << NodeResponse("Error", key, <<>>, "no such container") >>

\* On an engine error the handler logs it and returns Err: nothing is sent.
handle_get_container_logs(request_id, outcome) ==
    LET key == RequestKey("GetContainerLogs", ValueId(request_id)) IN
    IF outcome.ok
    THEN << NodeResponse("ContainerLogs", key, <<>>, "") >>
    ELSE << >>

\* process_incoming_message: a NodeCommand goes to the handler of its kind; a
\* ServerResponse and every other envelope are only logged.
process_incoming_message(envelope, outcome) ==
    IF envelope.payload # "NodeCommand" THEN << >>
    ELSE CASE envelope.kind = "GetNodeContainers" ->
                handle_get_client_containers(envelope.request_id, outcome)
           [] envelope.kind = "GetNodeContainersWithStatus" ->
                handle_get_client_containers_with_status(envelope.request_id, outcome)
           [] envelope.kind = "GetContainerStatus" ->
                handle_get_container_status(envelope.request_id, outcome)
           [] envelope.kind = "StartContainer" ->
                handle_start_container(envelope.request_id, outcome)
           [] envelope.kind = "StopContainer" ->
                handle_stop_container(envelope.request_id, outcome)
           [] envelope.kind = "DeleteContainer" ->
                handle_delete_container(envelope.request_id, outcome)
           [] envelope.kind = "GetContainerLogs" ->
                handle_get_container_logs(envelope.request_id, outcome)
           [] OTHER -> << >>

\* run_grpc_client: the agent opens the conversation (conversation() on the
\* coordinator: fresh auth state and outbound channel, both tasks spawned) and
\* sends its AuthRequest and a GetServerStatus on tx_out.
AgentConnect(s, k) ==
    /\ runner = "running" /\ listeners.grpc = "running"
    /\ conn[s] = "none"
    /\ conn' = [conn EXCEPT ![s] = "open"]
    /\ auth_state' = [auth_state EXCEPT ![s] = AuthDefault]
    /\ outbound' = [outbound EXCEPT ![s] = <<>>]
    /\ egress' = [egress EXCEPT ![s] = "spawned"]
    /\ ingress' = [ingress EXCEPT ![s] = "running"]
    /\ tx_out' = [tx_out EXCEPT ![s] = <<AuthRequest(k), GetServerStatus>>]
    /\ UNCHANGED <<nodes, pending, oneshot, server_cmd_rx, lagged, egress_hold,
                   rest, seen, forwarded, deliveries, ws, listeners, runner>>

\* The agent's receive loop: stream.next() gives the next envelope of the
\* response stream, process_incoming_message sends what it answers on tx_out
\* (tx.send waits while the channel is full).
AgentRecv(s, outcome) ==
    /\ conn[s] = "open"
    /\ outbound[s] # <<>>
    /\ LET envelope == Head(outbound[s])
           answers == process_incoming_message(envelope, outcome)
       IN /\ Len(tx_out[s]) + Len(answers) <= NODE_TX_CAPACITY
          /\ tx_out' = [tx_out EXCEPT ![s] = @ \o answers]
          /\ seen' = [seen EXCEPT ![s] = IF envelope.payload = "NodeCommand"
                                         THEN @ \cup {envelope.request_id}
                                         ELSE @]
    /\ outbound' = [outbound EXCEPT ![s] = Tail(@)]
    /\ UNCHANGED <<conn, auth_state, nodes, pending, oneshot, server_cmd_rx, lagged,
                   egress, egress_hold, ingress, rest, forwarded, deliveries,
                   ws, listeners, runner>>

NoKey == RequestKey(None, NoId)

extract_request_key(response) ==
    IF response.kind \in ResponseKind THEN response.request_key ELSE NoKey

\* The Pending Table lookup of handle_node_response: the key that
\* pending.remove finds for this response, if any.
PendingMatchByTypeOnly(pend, response) ==
    LET rk == extract_request_key(response)
        hits == {k \in pend : k[2] = rk.request_type}
    IN IF rk.request_id.tag = "Value" /\ hits # {}
       THEN [found |-> TRUE, key |-> CHOOSE k \in hits : TRUE]
       ELSE [found |-> FALSE, key |-> <<None, None>>]

PendingMatch(pend, response) ==
    LET rk == extract_request_key(response)
        key == <<rk.request_id.value, rk.request_type>>
    IN IF rk.request_id.tag = "Value" /\ key \in pend
       THEN [found |-> TRUE, key |-> key]
       ELSE [found |-> FALSE, key |-> <<None, None>>]

\* The Pending Table after ingress has taken the entry of a reply.
PendingAfterLookupKeepsEntry(pend, key) == pend

PendingAfterLookup(pend, key) == pend \ {key}

\* oneshot::Sender::send on the channel of request id r.
OneshotSend(r, envelope) ==
    IF oneshot[r].state \in {"open", "sent"}
    THEN /\ oneshot' = [oneshot EXCEPT ![r] = [state |-> "sent", value |-> envelope]]
         /\ deliveries' = [deliveries EXCEPT ![r] = IF @ < 2 THEN @ + 1 ELSE @]
    ELSE \* receiver dropped: send fails, the envelope is discarded
         UNCHANGED <<oneshot, deliveries>>

\* A handler that answers GetServerStatus whether authenticated or not.
handle_server_command_open_status(s, cmd) ==
    IF cmd.kind = "GetServerStatus" /\ OutboundHasSpace(s)
    THEN /\ outbound' = [outbound EXCEPT ![s] = Append(@, ServerStatusEnvelope)]
         /\ UNCHANGED <<auth_state, nodes, ingress>>
    ELSE IF cmd.kind = "AuthRequest" /\ ~is_authenticated(auth_state[s])
    THEN /\ auth_state' = [auth_state EXCEPT ![s] = authenticate(cmd.node_id, cmd.password)]
         /\ nodes' = [nodes EXCEPT ![<<cmd.node_id, cmd.password>>] = s]
         /\ UNCHANGED <<outbound, ingress>>
    ELSE UNCHANGED <<auth_state, nodes, outbound, ingress>>

\* A handler that authenticates on every AuthRequest.
handle_server_command_reauth(s, cmd) ==
    IF cmd.kind = "AuthRequest"
    THEN /\ auth_state' = [auth_state EXCEPT ![s] = authenticate(cmd.node_id, cmd.password)]
         /\ nodes' = [nodes EXCEPT ![<<cmd.node_id, cmd.password>>] = s]
         /\ UNCHANGED <<outbound, ingress>>
    ELSE UNCHANGED <<auth_state, nodes, outbound, ingress>>

\* handle_server_command
handle_server_command(s, cmd) ==
    IF ~is_authenticated(auth_state[s])
    THEN IF cmd.kind = "AuthRequest"
         THEN /\ auth_state' = [auth_state EXCEPT ![s] = authenticate(cmd.node_id, cmd.password)]
              /\ nodes' = [nodes EXCEPT ![<<cmd.node_id, cmd.password>>] = s]
              /\ UNCHANGED <<outbound, ingress>>
         ELSE UNCHANGED <<auth_state, nodes, outbound, ingress>>
    ELSE IF cmd.kind = "GetServerStatus"
         THEN IF OutboundHasSpace(s)
              THEN /\ outbound' = [outbound EXCEPT ![s] = Append(@, ServerStatusEnvelope)]
                   /\ UNCHANGED <<auth_state, nodes, ingress>>
              ELSE \* outbound full: send().await parks with the auth lock held
                   /\ ingress' = [ingress EXCEPT ![s] = "blocked"]
                   /\ UNCHANGED <<auth_state, nodes, outbound>>
         ELSE UNCHANGED <<auth_state, nodes, outbound, ingress>>

\* The WebSocket sessions holding a live receiver of the event bus whose
\* sender session b created at its authentication.
BusReceivers(b) == {w \in WsSessions : ws[w].pc = "subscribed" /\ ws[w].bus = b}

\* broadcast::Sender::send on an event bus: a receiver that is
\* NODE_CHANNEL_CAPACITY behind loses its oldest value and is marked lagged.
EventBusQueueAfterSend(q, envelope) ==
    IF Len(q) >= NODE_CHANNEL_CAPACITY THEN Append(Tail(q), envelope) ELSE Append(q, envelope)

\* node.send(envelope) on the event bus of sender b: every live receiver sees
\* the value; with no receiver the send fails and the envelope is dropped.
EventBusSend(b, envelope) ==
    [w \in WsSessions |->
        IF w \in BusReceivers(b)
        THEN [ws[w] EXCEPT !.rx = EventBusQueueAfterSend(@, envelope),
                           !.lag = @ \/ Len(ws[w].rx) >= NODE_CHANNEL_CAPACITY]
        ELSE ws[w]]

\* A handler that goes on to the event bus after completing a pending entry.
handle_node_response_no_return(s, resp) ==
    LET m == PendingMatch(pending, resp)
        b == PresenceLookup(<<auth_state[s].id, auth_state[s].password>>)
    IN
    /\ IF m.found
       THEN /\ pending' = PendingAfterLookup(pending, m.key)
            /\ OneshotSend(m.key[1], resp)
       ELSE UNCHANGED <<pending, oneshot, deliveries>>
    /\ ws' = IF b # None THEN EventBusSend(b, resp) ELSE ws

\* A publish that waits until every subscriber has room for the envelope.
handle_node_response_backpressure(s, resp) ==
    LET m == PendingMatch(pending, resp)
        b == PresenceLookup(<<auth_state[s].id, auth_state[s].password>>)
    IN
    IF m.found
    THEN /\ pending' = PendingAfterLookup(pending, m.key)
         /\ OneshotSend(m.key[1], resp)
         /\ UNCHANGED ws
    ELSE /\ UNCHANGED <<pending, oneshot, deliveries>>
         /\ b # None => \A w \in BusReceivers(b) : Len(ws[w].rx) < NODE_CHANNEL_CAPACITY
         /\ ws' = IF b # None THEN EventBusSend(b, resp) ELSE ws

\* handle_node_response: a reply that finds its pending entry is sent on the
\* one-shot channel; every other response is sent on the event bus found in
\* the Presence Registry under the session's own credentials.
handle_node_response(s, resp) ==
    LET m == PendingMatch(pending, resp)
        b == PresenceLookup(<<auth_state[s].id, auth_state[s].password>>)
    IN
    IF m.found
    THEN /\ pending' = PendingAfterLookup(pending, m.key)
         /\ OneshotSend(m.key[1], resp)
         /\ UNCHANGED ws
    ELSE /\ UNCHANGED <<pending, oneshot, deliveries>>
         /\ ws' = IF b # None THEN EventBusSend(b, resp) ELSE ws

\* A node quotes in Value(..) only request ids it has read from its stream
\* (UUIDv4 ids are not guessable), or an id unknown to the coordinator.
NodeCanSend(s, envelope) ==
    (envelope.payload = "NodeResponse" /\ envelope.request_key.request_id.tag = "Value")
        => envelope.request_key.request_id.value \in seen[s] \cup {UnknownRequestId}

\* An ingress loop that lets a reply complete its pending entry whether the
\* session is authenticated or not.
IngressRecvNoAuthCheck(s, envelope) ==
    /\ conn[s] = "open"
    /\ ingress[s] = "running"
    /\ AuthLockFree(s)
    /\ NodeCanSend(s, envelope)
    /\   IF envelope.payload = "ServerCommand"
         THEN /\ handle_server_command(s, envelope)
              /\ UNCHANGED <<pending, oneshot, deliveries, ws>>
         ELSE IF /\ envelope.payload = "NodeResponse"
                 /\ \/ is_authenticated(auth_state[s])
                    \/ PendingMatch(pending, envelope).found
         THEN /\ handle_node_response(s, envelope)
              /\ UNCHANGED <<auth_state, nodes, outbound, ingress>>
         ELSE UNCHANGED <<auth_state, nodes, outbound, ingress, pending, oneshot, deliveries,
                          ws>>
    /\ UNCHANGED <<conn, server_cmd_rx, lagged, egress, egress_hold, rest, seen, forwarded,
                   listeners, runner, tx_out>>

\* An ingress loop that breaks on an envelope of an unexpected family.
IngressRecvBreaksOnOther(s, envelope) ==
    /\ conn[s] = "open"
    /\ ingress[s] = "running"
    /\ AuthLockFree(s)
    /\ NodeCanSend(s, envelope)
    /\   IF envelope.payload = "ServerCommand"
         THEN /\ handle_server_command(s, envelope)
              /\ UNCHANGED <<pending, oneshot, deliveries, ws>>
         ELSE IF envelope.payload = "NodeResponse" /\ is_authenticated(auth_state[s])
         THEN /\ handle_node_response(s, envelope)
              /\ UNCHANGED <<auth_state, nodes, outbound, ingress>>
         ELSE IF envelope.payload = "NodeResponse"
         THEN UNCHANGED <<auth_state, nodes, outbound, ingress, pending, oneshot, deliveries,
                          ws>>
         ELSE /\ ingress' = [ingress EXCEPT ![s] = "done"]
              /\ UNCHANGED <<auth_state, nodes, outbound, pending, oneshot, deliveries, ws>>
    /\ UNCHANGED <<conn, server_cmd_rx, lagged, egress, egress_hold, rest, seen, forwarded,
                   listeners, runner, tx_out>>

\* node_to_server task, one iteration of the loop on an inbound envelope.
IngressRecv(s, envelope) ==
    /\ conn[s] = "open"
    /\ ingress[s] = "running"
    /\ AuthLockFree(s)
    /\ NodeCanSend(s, envelope)
    /\   IF envelope.payload = "ServerCommand"
         THEN /\ handle_server_command(s, envelope)
              /\ UNCHANGED <<pending, oneshot, deliveries, ws>>
         ELSE IF envelope.payload = "NodeResponse" /\ is_authenticated(auth_state[s])
         THEN /\ handle_node_response(s, envelope)
              /\ UNCHANGED <<auth_state, nodes, outbound, ingress>>
         ELSE UNCHANGED <<auth_state, nodes, outbound, ingress, pending, oneshot, deliveries,
                          ws>>
    /\ UNCHANGED <<conn, server_cmd_rx, lagged, egress, egress_hold, rest, seen, forwarded,
                   listeners, runner, tx_out>>

\* node_to_server task, one iteration of the loop on the next envelope of
\* the agent's tx_out channel.
AgentSend(s) ==
    /\ conn[s] = "open"
    /\ ingress[s] = "running"
    /\ AuthLockFree(s)
    /\ tx_out[s] # <<>>
    /\ LET envelope == Head(tx_out[s]) IN
         IF envelope.payload = "ServerCommand"
         THEN /\ handle_server_command(s, envelope)
              /\ UNCHANGED <<pending, oneshot, deliveries, ws>>
         ELSE IF envelope.payload = "NodeResponse" /\ is_authenticated(auth_state[s])
         THEN /\ handle_node_response(s, envelope)
              /\ UNCHANGED <<auth_state, nodes, outbound, ingress>>
         ELSE UNCHANGED <<auth_state, nodes, outbound, ingress, pending, oneshot, deliveries,
                          ws>>
    /\ tx_out' = [tx_out EXCEPT ![s] = Tail(@)]
    /\ UNCHANGED <<conn, server_cmd_rx, lagged, egress, egress_hold, rest, seen, forwarded,
                   listeners, runner>>

\* node_to_server task parked in outbound_tx.send of the ServerStatus reply.
IngressResume(s) ==
    /\ UNCHANGED other_vars
    /\ ingress[s] = "blocked"
    /\ IF conn[s] = "ended"
       THEN UNCHANGED outbound
       ELSE /\ OutboundHasSpace(s)
            /\ outbound' = [outbound EXCEPT ![s] = Append(@, ServerStatusEnvelope)]
    /\ ingress' = [ingress EXCEPT ![s] = "running"]
    /\ UNCHANGED <<conn, auth_state, nodes, pending, oneshot, server_cmd_rx, lagged,
                   egress, egress_hold, rest, seen, forwarded, deliveries>>

\* node_to_server task: stream end or error, cleanup on disconnect.
IngressExit(s) ==
    /\ UNCHANGED other_vars
    /\ conn[s] = "ended"
    /\ ingress[s] = "running"
    /\ AuthLockFree(s)
    /\ LET t == take_credentials(auth_state[s]) IN
         /\ auth_state' = [auth_state EXCEPT ![s] = t.auth]
         /\ nodes' = IF t.some THEN [nodes EXCEPT ![t.creds] = None] ELSE nodes
    /\ ingress' = [ingress EXCEPT ![s] = "done"]
    /\ UNCHANGED <<conn, pending, oneshot, server_cmd_rx, lagged, egress, egress_hold,
                   outbound, rest, seen, forwarded, deliveries>>

\* A supervisor that never aborts the egress task.
SupervisorNeverAborts(s) ==
    /\ FALSE
    /\ UNCHANGED vars

\* Task 3: node_to_server_handle.await, then server_to_node_handle.abort().
Supervisor(s) ==
    /\ UNCHANGED other_vars
    /\ ingress[s] = "done"
    /\ egress[s] \in {"spawned", "running", "blocked"}
    /\ egress' = [egress EXCEPT ![s] = "stopped"]
    /\ egress_hold' = [egress_hold EXCEPT ![s] = NoRequest]
    /\ server_cmd_rx' = [server_cmd_rx EXCEPT ![s] = <<>>]
    /\ lagged' = [lagged EXCEPT ![s] = FALSE]
    /\ UNCHANGED <<conn, auth_state, nodes, pending, oneshot, ingress, outbound,
                   rest, seen, forwarded, deliveries>>

(***************************************************************************)
(* REST handlers: get_containers, get_container_status, start_container,   *)
(* stop_container, delete_container, get_container_logs.                   *)
(***************************************************************************)
PendingKey(r) == <<r, EndpointRequestType(rest[r].endpoint)>>

\* The envelope and credentials a handler publishes on the Command Bus.
CommandOf(r) ==
    ServerRequestByUser(NodeCommand(EndpointCommandKind(rest[r].endpoint), r),
                        rest[r].node_id, rest[r].password)

\* The credentials of the nodes that are connected: authenticated sessions
\* whose stream is open and whose egress is subscribed to the Command Bus.
ConnectedNodes ==
    {<<auth_state[s].id, auth_state[s].password>> :
        s \in {t \in Sessions : /\ conn[t] = "open"
                                /\ is_authenticated(auth_state[t])
                                /\ t \in Subscribers}}

\* A handler that has not registered its entry when it publishes.
PendingAfterInsertSkipped(pend, key) == pend

\* pending.insert((request_id, request_type), response_tx)
PendingAfterInsert(pend, key) == pend \cup {key}

\* Uuid::new_v4, oneshot::channel, pending.insert (present: the nodes that
\* are connected when the call arrives).
RestInsert(r, ep, k) ==
    /\ runner = "running" /\ listeners.http = "running"
    /\ UNCHANGED other_vars
    /\ rest[r].pc = "idle"
    /\   /\ rest' = [rest EXCEPT ![r] = [pc |-> "inserted", endpoint |-> ep,
                                         node_id |-> k[1], password |-> k[2],
                                         present |-> ConnectedNodes,
                                         response |-> NoResponse]]
         /\ pending' = PendingAfterInsert(pending, <<r, EndpointRequestType(ep)>>)
    /\ oneshot' = [oneshot EXCEPT ![r] = [state |-> "open", value |-> NoEnvelope]]
    /\ UNCHANGED <<conn, auth_state, nodes, server_cmd_rx, lagged, egress, egress_hold,
                   ingress, outbound, seen, forwarded, deliveries>>

\* server_tx.send(ServerRequestByUser{..}); on Err: pending.remove and 500.
RestPublish(r) ==
    /\ UNCHANGED other_vars
    /\ rest[r].pc = "inserted"
    /\ IF Subscribers = {}
       THEN \* broadcast send with no live receiver returns Err
            /\ pending' = pending \ {PendingKey(r)}
            /\ oneshot' = [oneshot EXCEPT ![r] = [state |-> "dropped", value |-> NoEnvelope]]
            /\ rest' = [rest EXCEPT ![r].pc = "returned",
                                    ![r].response = PublishFailureResponse]
            /\ UNCHANGED <<server_cmd_rx, lagged>>
       ELSE /\ server_cmd_rx' = [s \in Sessions |->
                                   IF s \in Subscribers
                                   THEN BusQueueAfterSend(server_cmd_rx[s], CommandOf(r))
                                   ELSE server_cmd_rx[s]]
            /\ lagged' = [s \in Sessions |->
                            IF s \in Subscribers /\ Len(server_cmd_rx[s]) >= CMD_BUS_CAPACITY
                            THEN TRUE ELSE lagged[s]]
            /\ rest' = [rest EXCEPT ![r].pc = "waiting"]
            /\ UNCHANGED <<pending, oneshot>>
    /\ UNCHANGED <<conn, auth_state, nodes, egress, egress_hold, ingress, outbound,
                   seen, forwarded, deliveries>>

\* timeout(.., response_rx).await completes with the reply (Ok(Ok)) or with
\* the sender dropped (Ok(Err)).
RestAwait(r) ==
    /\ UNCHANGED other_vars
    /\ rest[r].pc = "waiting"
    /\ oneshot[r].state \in {"sent", "closed"}
    /\ LET ep == rest[r].endpoint
           resp == IF oneshot[r].state = "sent"
                   THEN ReplyResponse(ep, r, oneshot[r].value)
                   ELSE ChannelClosedResponse(r)
       IN /\ rest' = [rest EXCEPT ![r].pc = "returned", ![r].response = resp]
          /\ pending' = IF resp.status # 200 /\ RemovesOnFailure(ep)
                        THEN pending \ {PendingKey(r)}
                        ELSE pending
    /\ oneshot' = [oneshot EXCEPT ![r] = [state |-> "consumed", value |-> @.value]]
    /\ UNCHANGED <<conn, auth_state, nodes, server_cmd_rx, lagged, egress, egress_hold,
                   ingress, outbound, seen, forwarded, deliveries>>

\* A handler that awaits response_rx with no deadline.
RestNoDeadline(r) ==
    /\ FALSE
    /\ UNCHANGED vars

\* A deadline that wins over a reply already in the channel.
RestTimeoutIgnoresReply(r) ==
    /\ UNCHANGED other_vars
    /\ rest[r].pc = "waiting"
    /\ oneshot[r].state \in {"open", "sent"}
    /\ rest' = [rest EXCEPT ![r].pc = "timedout"]
    /\ oneshot' = [oneshot EXCEPT ![r] = [state |-> "dropped", value |-> @.value]]
    /\ UNCHANGED <<conn, auth_state, nodes, pending, server_cmd_rx, lagged, egress,
                   egress_hold, ingress, outbound, seen, forwarded, deliveries>>

\* The deadline elapses with no reply in the channel: the await completes
\* with Err(Elapsed) and the receiver is dropped.
RestTimeout(r) ==
    /\ UNCHANGED other_vars
    /\ rest[r].pc = "waiting"
    /\ oneshot[r].state = "open"
    /\ rest' = [rest EXCEPT ![r].pc = "timedout"]
    /\ oneshot' = [oneshot EXCEPT ![r] = [state |-> "dropped", value |-> NoEnvelope]]
    /\ UNCHANGED <<conn, auth_state, nodes, pending, server_cmd_rx, lagged, egress,
                   egress_hold, ingress, outbound, seen, forwarded, deliveries>>

\* The Err(_) arm: pending.remove (not in get_containers) and 408.
RestTimeoutReturn(r) ==
    /\ UNCHANGED other_vars
    /\ rest[r].pc = "timedout"
    /\ LET ep == rest[r].endpoint IN
         /\ pending' = IF RemovesOnFailure(ep) THEN pending \ {PendingKey(r)} ELSE pending
         /\ rest' = [rest EXCEPT ![r].pc = "returned",
                                 ![r].response = TimeoutResponse(ep, r)]
    /\ UNCHANGED <<conn, auth_state, nodes, oneshot, server_cmd_rx, lagged, egress,
                   egress_hold, ingress, outbound, seen, forwarded, deliveries>>

(***************************************************************************)
(* WebSocket facade (lib-coordinator-ws/src/ws_observe_containers.rs).     *)
(***************************************************************************)
CloseFrame == [frame |-> "Close", containers |-> <<>>]

TextFrame(containers) == [frame |-> "Text", containers |-> containers]

UnknownResponseFrame == [frame |-> "Text: Unknown response type", containers |-> <<>>]

PongFrame == [frame |-> "Pong", containers |-> <<>>]

\* What ws_receiver.next() may yield: a frame of the client, a transport
\* error, or the end of the client's stream ("None").
ClientMessages == {"Ping", "Text", "Binary", "Close", "Error", "None"}

\* A handler of client frames that ends the session on any frame but Ping.
handle_client_message_strict(msg) ==
    [continue |-> msg = "Ping",
     frames |-> IF msg = "Ping" THEN <<PongFrame>> ELSE <<>>]

\* handle_client_message: whether the loop continues, and the frames written.
handle_client_message(msg) ==
    [continue |-> msg \notin {"Close", "None"},
     frames |-> IF msg = "Ping" THEN <<PongFrame>> ELSE <<>>]

\* The number of senders of the event bus created by session b: held by the
\* Presence Registry while an entry stores it, and every WebSocket session
\* that cloned it at its lookup and has not ended.
EventBusSenders(b) ==
    Cardinality({k \in Creds : nodes[k] = b})
        + Cardinality({w \in WsSessions :
                         ws[w].bus = b /\ ws[w].pc \in {"upgraded", "primed", "subscribed"}})

\* broadcast_rx.recv() of session w yields Err(Closed): every sender of its
\* bus is dropped and nothing is left to read.
BusClosed(w) == EventBusSenders(ws[w].bus) = 0 /\ ws[w].rx = <<>> /\ ~ws[w].lag

\* Whether handle_server_message returns false when the write of the frame
\* for this envelope fails (the failure of an "Unknown response type" frame
\* is ignored).
EndsOnSendFailure(envelope) ==
    /\ envelope.payload = "ClientResponse" /\ envelope.kind = "ClientContainers"
    /\ envelope.request_key.request_type \in {"GetContainers", "UpdateContainerInfo"}

\* handle_server_message on Ok(envelope): the frames written to the client.
\* Only Payload::ClientResponse envelopes produce a frame.
handle_server_message(envelope) ==
    IF envelope.payload = "ClientResponse"
    THEN IF envelope.kind = "ClientContainers"
         THEN IF envelope.request_key.request_type \in {"GetContainers", "UpdateContainerInfo"}
              THEN <<TextFrame(envelope.containers)>>
              ELSE <<>>
         ELSE <<UnknownResponseFrame>>
    ELSE <<>>

\* handle_socket up to the Presence lookup: with no entry under the key the
\* session writes a Close frame and returns; otherwise it keeps a clone of
\* the sender found.
WsUpgrade(w, k) ==
    /\ runner = "running" /\ listeners.http = "running"
    /\ ws[w].pc = "idle"
    /\ LET b == PresenceLookup(k) IN
       ws' = [ws EXCEPT ![w] =
                IF b = None
                THEN [IdleSocket EXCEPT !.pc = "closed", !.id = k[1], !.password = k[2],
                                        !.frames = <<CloseFrame>>]
                ELSE [IdleSocket EXCEPT !.pc = "upgraded", !.id = k[1], !.password = k[2],
                                        !.bus = b]]
    /\ UNCHANGED <<conn, auth_state, nodes, pending, oneshot, server_cmd_rx, lagged,
                   egress, egress_hold, ingress, outbound, rest, seen, forwarded,
                   deliveries, listeners, runner, tx_out>>

\* send_get_containers: the priming ClientCommand is sent on the Command Bus
\* (an Err of the send is only logged).
WsPrime(w) ==
    /\ ws[w].pc = "upgraded"
    /\ LET request == ServerRequestByUser(GetClientContainers(w), ws[w].id, ws[w].password)
       IN /\ server_cmd_rx' = CommandBusAfterSend(request)
          /\ lagged' = CommandBusLagAfterSend
    /\ ws' = [ws EXCEPT ![w].pc = "primed"]
    /\ UNCHANGED <<conn, auth_state, nodes, pending, oneshot, egress, egress_hold, ingress,
                   outbound, rest, seen, forwarded, deliveries,
                   listeners, runner, tx_out>>

\* client_tx.subscribe(): the session now receives what is sent on the bus.
WsSubscribe(w) ==
    /\ ws[w].pc = "primed"
    /\ ws' = [ws EXCEPT ![w].pc = "subscribed", ![w].rx = <<>>, ![w].lag = FALSE]
    /\ UNCHANGED <<conn, auth_state, nodes, pending, oneshot, server_cmd_rx, lagged,
                   egress, egress_hold, ingress, outbound, rest, seen, forwarded,
                   deliveries, listeners, runner, tx_out>>

\* The select loop, broadcast_rx.recv() branch: Err(Lagged) is logged and the
\* loop continues; Err(Closed) ends it; Ok(envelope) goes through
\* handle_server_message, which ends it when a container frame cannot be
\* written.
WsRecv(w) ==
    /\ ws[w].pc = "subscribed"
    /\ IF ws[w].lag
       THEN ws' = [ws EXCEPT ![w].lag = FALSE]
       ELSE IF ws[w].rx = <<>>
       THEN \* Err(Closed): the session ends
            /\ BusClosed(w)
            /\ ws' = [ws EXCEPT ![w].pc = "closed"]
       ELSE /\ Len(ws[w].frames) < MaxFrames
            /\ \/ ws' = [ws EXCEPT ![w].rx = Tail(@),
                                   ![w].frames = @ \o handle_server_message(Head(ws[w].rx))]
               \/ \* the write of the text frame fails: the session ends
                  /\ EndsOnSendFailure(Head(ws[w].rx))
                  /\ ws' = [ws EXCEPT ![w].pc = "closed", ![w].rx = <<>>]
    /\ UNCHANGED <<conn, auth_state, nodes, pending, oneshot, server_cmd_rx, lagged,
                   egress, egress_hold, ingress, outbound, rest, seen, forwarded,
                   deliveries, listeners, runner, tx_out>>

\* The select loop, ws_receiver.next() branch: the client sends Close or its
\* stream ends, handle_client_message returns false and the session ends.
WsClientClose(w) ==
    /\ ws[w].pc = "subscribed"
    /\ ws' = [ws EXCEPT ![w].pc = "closed", ![w].rx = <<>>, ![w].lag = FALSE]
    /\ UNCHANGED <<conn, auth_state, nodes, pending, oneshot, server_cmd_rx, lagged,
                   egress, egress_hold, ingress, outbound, rest, seen, forwarded,
                   deliveries, listeners, runner, tx_out>>

\* The select loop, ws_receiver.next() branch, for any client message: a
\* Ping is answered with a Pong (a failed write is only logged), Close and
\* the end of the stream end the session, everything else is ignored.
WsClientMessage(w, msg) ==
    /\ ws[w].pc = "subscribed"
    /\ LET h == handle_client_message(msg) IN
       IF h.continue
       THEN /\ Len(ws[w].frames) + Len(h.frames) <= MaxFrames
            /\ ws' = [ws EXCEPT ![w].frames = @ \o h.frames]
       ELSE ws' = [ws EXCEPT ![w].pc = "closed", ![w].rx = <<>>, ![w].lag = FALSE]
    /\ UNCHANGED <<conn, auth_state, nodes, pending, oneshot, server_cmd_rx, lagged,
                   egress, egress_hold, ingress, outbound, rest, seen, forwarded,
                   deliveries, listeners, runner, tx_out>>

(***************************************************************************)
(* Assembly (coordinator-runner/src/lib.rs).                               *)
(***************************************************************************)
ListenerNames == {"grpc", "http"}

\* A listener task ends with Err: the bind fails or serve stops with an
\* error. Its JoinHandle then yields Ok(Err(e)).
ListenerFail(h) ==
    /\ runner = "running"
    /\ listeners[h] = "running"
    /\ listeners' = [listeners EXCEPT ![h] = "failed"]
    /\ UNCHANGED <<conn, auth_state, nodes, pending, oneshot, server_cmd_rx, lagged,
                   egress, egress_hold, ingress, outbound, rest, seen, forwarded,
                   deliveries, ws, runner, tx_out>>

\* A listener task panics: its JoinHandle yields Err(JoinError).
ListenerPanic(h) ==
    /\ runner = "running"
    /\ listeners[h] = "running"
    /\ listeners' = [listeners EXCEPT ![h] = "panicked"]
    /\ UNCHANGED <<conn, auth_state, nodes, pending, oneshot, server_cmd_rx, lagged,
                   egress, egress_hold, ingress, outbound, rest, seen, forwarded,
                   deliveries, ws, runner, tx_out>>

\* tokio::try_join!(grpc_handle, http_handle)? followed by Ok(()): the join
\* completes with Err as soon as one handle yields Err(JoinError), and with Ok
\* once both handles have yielded Ok(_), whatever the task results inside.
JoinOutcome(l) ==
    IF \E h \in ListenerNames : l[h] = "panicked" THEN "err"
    ELSE IF \A h \in ListenerNames : l[h] = "failed" THEN "ok"
    ELSE "running"

\* run_with_ready_callback returns.
RunnerJoin ==
    /\ runner = "running"
    /\ JoinOutcome(listeners) # "running"
    /\ runner' = JoinOutcome(listeners)
    /\ UNCHANGED <<conn, auth_state, nodes, pending, oneshot, server_cmd_rx, lagged,
                   egress, egress_hold, ingress, outbound, rest, seen, forwarded,
                   deliveries, ws, listeners, tx_out>>

(***************************************************************************)
(* Specification.                                                          *)
(***************************************************************************)
\* The steps of sessions SS, whose nodes present credentials NK, and of REST
\* calls RR, whose callers choose among endpoints EP and credentials KK.
NextOf(SS, NK, RR, EP, KK) ==
    \/ \E s \in SS : Connect(s)
    \/ \E s \in SS : EgressSubscribe(s)
    \/ \E s \in SS : EgressRecv(s)
    \/ \E s \in SS : EgressResume(s)
    \/ \E s \in SS : NodeRecv(s)
    \/ \E s \in SS : NodeDisconnect(s)
    \/ \E s \in SS, envelope \in InboundEnvelopesOf(NK, RR, EP) : IngressRecv(s, envelope)
    \/ \E s \in SS : IngressResume(s)
    \/ \E s \in SS : IngressExit(s)
    \/ \E s \in SS : Supervisor(s)
    \/ \E r \in RR, ep \in EP, k \in KK : RestInsert(r, ep, k)
    \/ \E r \in RR : RestPublish(r)
    \/ \E r \in RR : RestAwait(r)
    \/ \E r \in RR : RestTimeout(r)
    \/ \E r \in RR : RestTimeoutReturn(r)

\* One node session and one REST call, every endpoint and credential.
Next == NextOf({"s1"}, Creds, {"R1"}, Endpoints, Creds)

Spec == Init /\ [][Next]_vars

\* Two concurrent REST calls through one session.
NextCalls == NextOf({"s1"}, {<<"n1", "good">>}, Requests, {"list", "start"},
                    {<<"n1", "good">>})

SpecCalls == Init /\ [][NextCalls]_vars

\* Two node sessions and one REST call.
NextSessions == NextOf(Sessions, {<<"n1", "good">>, <<"n1", "bad">>}, {"R1"}, {"start"},
                       {<<"n1", "good">>, <<"n1", "bad">>})

SpecSessions == Init /\ [][NextSessions]_vars

\* Two node sessions whose node agents may pass request ids to each other.
NextCollude ==
    \/ NextSessions
    \/ \E a \in Sessions, b \in Sessions : NodeShare(a, b)

SpecCollude == Init /\ [][NextCollude]_vars

\* The steps of WebSocket sessions WW whose clients present credentials WK.
WsNextOf(WW, WK) ==
    \/ \E w \in WW, k \in WK : WsUpgrade(w, k)
    \/ \E w \in WW : WsPrime(w)
    \/ \E w \in WW : WsSubscribe(w)
    \/ \E w \in WW : WsRecv(w)
    \/ \E w \in WW : WsClientClose(w)

\* One node session observed by one WebSocket session, and one REST call.
NextWs ==
    \/ NextOf({"s1"}, {<<"n1", "good">>}, {"R1"}, {"start", "list"}, {<<"n1", "good">>})
    \/ WsNextOf({"w1"}, {<<"n1", "good">>, <<"n1", "bad">>})

SpecWs == Init /\ [][NextWs]_vars

\* Two node sessions that present the same credentials, observed by one
\* WebSocket session; no REST call.
NextPresence ==
    \/ \E s \in Sessions : Connect(s)
    \/ \E s \in Sessions : EgressSubscribe(s)
    \/ \E s \in Sessions : EgressRecv(s)
    \/ \E s \in Sessions : NodeRecv(s)
    \/ \E s \in Sessions : NodeDisconnect(s)
    \/ \E s \in Sessions, envelope \in InboundEnvelopesOf({<<"n1", "good">>}, {}, {}) :
          IngressRecv(s, envelope)
    \/ \E s \in Sessions : IngressResume(s)
    \/ \E s \in Sessions : IngressExit(s)
    \/ \E s \in Sessions : Supervisor(s)
    \/ WsNextOf({"w1"}, {<<"n1", "good">>})

SpecPresence == Init /\ [][NextPresence]_vars

\* The same, with every message the WebSocket client may send.
NextObserve ==
    \/ NextPresence
    \/ \E w \in WsSessions, msg \in ClientMessages : WsClientMessage(w, msg)

SpecObserve == Init /\ [][NextObserve]_vars

\* One node agent that answers the commands of one REST call, every endpoint.
NextAgent ==
    \/ \E s \in {"s1"} : AgentConnect(s, <<"n1", "good">>)
    \/ \E s \in {"s1"} : EgressSubscribe(s)
    \/ \E s \in {"s1"} : EgressRecv(s)
    \/ \E s \in {"s1"} : EgressResume(s)
    \/ \E s \in {"s1"}, outcome \in EngineOutcomes : AgentRecv(s, outcome)
    \/ \E s \in {"s1"} : AgentSend(s)
    \/ \E s \in {"s1"} : IngressResume(s)
    \/ \E s \in {"s1"} : NodeDisconnect(s)
    \/ \E s \in {"s1"} : IngressExit(s)
    \/ \E s \in {"s1"} : Supervisor(s)
    \/ \E r \in {"R1"}, ep \in Endpoints, k \in {<<"n1", "good">>} : RestInsert(r, ep, k)
    \/ \E r \in {"R1"} : RestPublish(r)
    \/ \E r \in {"R1"} : RestAwait(r)
    \/ \E r \in {"R1"} : RestTimeout(r)
    \/ \E r \in {"R1"} : RestTimeoutReturn(r)

SpecAgent == Init /\ [][NextAgent]_vars

\* The assembly with its two listeners, one node session and one REST call.
NextAssembly ==
    \/ NextOf({"s1"}, {<<"n1", "good">>}, {"R1"}, {"start"}, {<<"n1", "good">>})
    \/ \E h \in ListenerNames : ListenerFail(h)
    \/ \E h \in ListenerNames : ListenerPanic(h)
    \/ RunnerJoin

SpecAssembly == Init /\ [][NextAssembly]_vars

\* run_with_ready_callback is polled until the join completes.
LiveAssembly == SpecAssembly /\ WF_vars(RunnerJoin)

\* The session tasks are polled by the runtime: a task that can finish its
\* send or its cleanup eventually does.
SessionFairness ==
    \A s \in Sessions :
        /\ WF_vars(EgressResume(s))
        /\ WF_vars(IngressResume(s))
        /\ WF_vars(IngressExit(s))

LiveSessionSpec == Init /\ [][Next]_vars /\ SessionFairness

\* A WebSocket session is a task the runtime keeps polling: when its
\* receiver has something to yield, the session takes it.
WsFairness == \A w \in WsSessions : WF_vars(WsRecv(w))

LiveObserve == SpecObserve /\ WsFairness /\ SessionFairness

\* Every REST handler is a task the runtime keeps polling, and its deadline
\* timer fires: each handler step that stays enabled is eventually taken.
RestFairness ==
    \A r \in Requests :
        /\ WF_vars(RestPublish(r))
        /\ WF_vars(RestAwait(r))
        /\ WF_vars(RestTimeout(r))
        /\ WF_vars(RestTimeoutReturn(r))

LiveSpec == Init /\ [][Next]_vars /\ RestFairness

\* Task 3 of a session is a spawned task awaiting the ingress handle: once
\* ingress has finished it is woken and runs.
SupervisorFairness == \A s \in Sessions : WF_vars(Supervisor(s))

LiveCallsSpec == Init /\ [][NextCalls]_vars /\ SupervisorFairness

(***************************************************************************)
(* Properties.                                                             *)
(***************************************************************************)
\* The reply envelope delivered on the one-shot channel of request id r.
Delivered(r) == deliveries[r] > 0

Returned(r) == rest[r].pc = "returned"

Called(r) == rest[r].pc # "idle"

\* C1: every command envelope that egress placed on a session's outbound
\* channel was forwarded while that session's auth state equalled exactly the
\* (id, password) the request was published with; an unauthenticated session
\* forwards nothing, and every command in an outbound channel was forwarded so.
C1_ForwardOnlyOnMatch ==
    /\ \A f \in forwarded :
         /\ f.auth.id # None /\ f.auth.password # None
         /\ f.auth.id = f.request.id
         /\ f.auth.password = f.request.password
    /\ \A s \in Sessions : \A i \in 1..Len(outbound[s]) :
         outbound[s][i].payload = "NodeCommand" =>
            \E f \in forwarded : f.session = s /\ f.request.envelope = outbound[s][i]

\* A command was forwarded to one session while another session, authenticated
\* with different credentials and subscribed to the Command Bus, got nothing.
C1_Witness ==
    \E f \in forwarded : \E s \in Sessions \ {f.session} :
        /\ is_authenticated(auth_state[s])
        /\ auth_state[s] # f.auth
        /\ egress[s] = "running"
        /\ server_cmd_rx[s] = <<>>
        /\ \A g \in forwarded : g.session # s

\* C2: the envelope delivered to the caller of request id r carries
\* RequestKey.request_id = Value(r), never the id of another call, and the id
\* echoed in the caller's HTTP outcome is r.
C2_RepliesNeverSwapped ==
    \A r \in Requests :
        /\ Delivered(r) => extract_request_key(oneshot[r].value).request_id = ValueId(r)
        /\ (Returned(r) /\ rest[r].response.id # None) => rest[r].response.id = r

\* Two calls are in flight at the same time and each has its reply in its
\* one-shot channel.
C2_Witness ==
    /\ rest["R1"].pc = "waiting" /\ oneshot["R1"].state = "sent"
    /\ rest["R2"].pc = "waiting" /\ oneshot["R2"].state = "sent"
    /\ rest["R1"].endpoint = rest["R2"].endpoint

\* C3: at most one reply envelope is ever delivered on the one-shot channel of
\* a request id, and once it is delivered the Pending Table holds no entry of
\* that id, so every later reply finds none.
C3_AtMostOneDelivery ==
    \A r \in Requests :
        /\ deliveries[r] <= 1
        /\ Delivered(r) => \A k \in pending : k[1] # r

\* A reply was delivered while two open, authenticated sessions have both read
\* the command and can both quote its request id.
C3_Witness ==
    /\ deliveries["R1"] = 1
    /\ \A s \in Sessions :
         /\ conn[s] = "open" /\ ingress[s] = "running"
         /\ is_authenticated(auth_state[s])
         /\ "R1" \in seen[s]

\* C4: a handler that returned on a non-success path left no entry of its
\* request id in the Pending Table, and the table holds only keys of calls
\* that have not returned.
C4_PendingOnlyOfOpenCalls ==
    /\ \A r \in Requests :
         (Returned(r) /\ rest[r].response.status # 200) => PendingKey(r) \notin pending
    /\ \A k \in pending : ~Returned(k[1])

\* C5: every REST call that was started eventually returns, with exactly one
\* outcome among 200, 400, 408 and 500 that never changes afterwards.
C5_EveryCallReturns ==
    /\ \A r \in Requests :
         (rest[r].pc = "inserted") ~>
            (Returned(r) /\ rest[r].response.status \in {200, 400, 408, 500})
    /\ [][\A r \in Requests : Returned(r) => rest'[r] = rest[r]]_vars

\* A call returned 408 although the node had read its command: the node
\* disconnected without replying.
C5_Witness ==
    /\ Returned("R1") /\ rest["R1"].response.status = 408
    /\ conn["s1"] = "ended"
    /\ \E f \in forwarded : f.request.envelope.request_id = "R1"

\* C6: for status, start, stop, delete and logs, once a non-error reply keyed
\* (the endpoint's request type, Value(r)) is delivered, the pending entry is
\* gone, the caller can no longer time out, and it returns 200 with id = r.
C6_ReplyGives200 ==
    \A r \in Requests :
        (Called(r) /\ rest[r].endpoint # "list" /\ Delivered(r)
           /\ oneshot[r].value.kind # "Error") =>
            /\ extract_request_key(oneshot[r].value) =
                 RequestKey(EndpointRequestType(rest[r].endpoint), ValueId(r))
            /\ PendingKey(r) \notin pending
            /\ rest[r].pc \in {"waiting", "returned"}
            /\ Returned(r) => /\ rest[r].response.status = 200
                              /\ rest[r].response.id = r

\* A start call returned 200 with the ContainerAction reply of its node.
C6_Witness ==
    /\ Returned("R1") /\ rest["R1"].endpoint = "start"
    /\ rest["R1"].response.status = 200
    /\ rest["R1"].response.body = <<"ContainerAction">>

C8_NotConnectedGives408 ==
    \A r \in Requests :
        (/\ Returned(r)
         /\ <<rest[r].node_id, rest[r].password>> \notin rest[r].present
         /\ \A f \in forwarded : f.request.envelope.request_id # r)
            => rest[r].response.status = 408

\* C9: with n1/good connected from the arrival of the call on, a call made
\* with n1/bad puts no envelope on any outbound channel and returns 408 with
\* its pending entry removed.
C9_MismatchGives408 ==
    \A r \in Requests :
        (/\ Called(r)
         /\ rest[r].node_id = "n1" /\ rest[r].password = "bad"
         /\ <<"n1", "good">> \in rest[r].present
         /\ <<"n1", "good">> \in ConnectedNodes) =>
            /\ \A f \in forwarded : f.request.envelope.request_id # r
            /\ Returned(r) => /\ rest[r].response.status = 408
                              /\ PendingKey(r) \notin pending

\* C10: whenever the reply delivered to a call is a NodeResponse/Error with
\* message m, the call returns 400 "Node error" with detail m and its own id.
C10_ErrorReplyGives400 ==
    \A r \in Requests :
        (Returned(r) /\ Delivered(r) /\ oneshot[r].value.kind = "Error") =>
            /\ rest[r].response.status = 400
            /\ rest[r].response.message = "Node error"
            /\ rest[r].response.detail = oneshot[r].value.message
            /\ rest[r].response.id = r

\* The sessions a command of request id r was forwarded to.
ForwardedTo(r) == {f.session : f \in {g \in forwarded : g.request.envelope.request_id = r}}

\* The caller of r has timed out: its receiver is dropped.
TimedOut(r) ==
    \/ rest[r].pc = "timedout"
    \/ rest[r].pc = "returned" /\ rest[r].response.status = 408

\* C11: when the session a command was forwarded to has ended and finished
\* its cleanup before any reply was delivered, the one-shot channel of the
\* caller still waiting is closed (so that the caller returns 500 "Response
\* channel closed" instead of waiting for the deadline).
C11_SessionEndClosesChannel ==
    \A r \in Requests : \A s \in ForwardedTo(r) :
        (ingress[s] = "done" /\ deliveries[r] = 0 /\ rest[r].pc = "waiting")
            => oneshot[r].state = "closed"

\* C12: a reply keyed (type, Value(r)) that ingress handles after the caller
\* of r has timed out is delivered to no caller and is sent on the event bus
\* registered under the replying session's credentials.
C12_LateReplyGoesToEventBus ==
    [][\A s \in Sessions : \A r \in Requests :
         (TimedOut(r) /\ is_authenticated(auth_state[s])) =>
            \A e \in RepliesTo(r, rest[r].endpoint) :
                IngressRecv(s, e) =>
                    /\ deliveries' = deliveries
                    /\ LET b == PresenceLookup(<<auth_state[s].id, auth_state[s].password>>)
                       IN ws' = IF b # None THEN EventBusSend(b, e) ELSE ws]_vars

C14_ReauthIsNoOp ==
    [][\A s \in Sessions : \A k \in Creds :
         (is_authenticated(auth_state[s]) /\ IngressRecv(s, AuthRequest(k)))
            => UNCHANGED <<auth_state, nodes, pending, oneshot, outbound>>]_vars

\* A session authenticated and registered as n1/good, with a call for it
\* pending and a command in its outbound channel, is handed an AuthRequest
\* for n2/good by its node.
C14_Witness ==
    /\ auth_state["s1"] = authenticate("n1", "good")
    /\ nodes[<<"n1", "good">>] = "s1"
    /\ pending # {} /\ outbound["s1"] # <<>>
    /\ ENABLED IngressRecv("s1", AuthRequest(<<"n2", "good">>))

\* C15: the first AuthRequest of a session stores that session's sender under
\* its credentials (last writer wins), and a command is forwarded only to the
\* session whose sender the Presence Registry holds under the command's
\* credentials, never to a session displaced by a later authentication.
C15_DisplacedSessionLosesRouting ==
    /\ [][\A s \in Sessions : \A k \in Creds :
            (~is_authenticated(auth_state[s]) /\ IngressRecv(s, AuthRequest(k)))
                => nodes'[k] = s]_vars
    /\ [](\A f \in forwarded : f.owner \in Sessions => f.owner = f.session)

\* C16: the stream end, the cleanup and the supervisor of session a leave
\* every other session's auth state, tasks and Presence entry alone.
C16_DisconnectIsLocal ==
    [][\A a \in Sessions :
         (NodeDisconnect(a) \/ IngressExit(a) \/ Supervisor(a)) =>
            \A b \in Sessions \ {a} :
                /\ auth_state'[b] = auth_state[b]
                /\ egress'[b] = egress[b]
                /\ ingress'[b] = ingress[b]
                /\ \A k \in Creds : nodes[k] = b => nodes'[k] = b]_vars

\* C17: a WebSocket upgrade whose key has no Presence entry writes a Close
\* frame and ends: nothing is sent on the Command Bus, no event bus is
\* subscribed to, and the ended session never does anything again.
C17_UnknownNodeGetsClose ==
    /\ [][\A w \in WsSessions : \A k \in Creds :
            (nodes[k] = None /\ WsUpgrade(w, k)) =>
                /\ ws'[w].pc = "closed"
                /\ ws'[w].frames = <<CloseFrame>>
                /\ ws'[w].bus = None
                /\ UNCHANGED <<server_cmd_rx, lagged>>]_vars
    /\ [][\A w \in WsSessions : ws[w].pc = "closed" => ws'[w] = ws[w]]_vars
    /\ [](\A w \in WsSessions :
            (ws[w].pc = "closed" /\ ws[w].bus = None) =>
                /\ ws[w].frames = <<CloseFrame>>
                /\ ws[w].rx = <<>>)

\* A WebSocket upgrade for n1/bad was refused with a Close frame while node
\* n1/good is registered.
C17_Witness ==
    /\ ws["w1"].pc = "closed" /\ ws["w1"].bus = None
    /\ ws["w1"].password = "bad"
    /\ ws["w1"].frames = <<CloseFrame>>
    /\ nodes[<<"n1", "good">>] = "s1"

\* C18: the priming command of a WebSocket session is forwarded to the
\* matching session's outbound channel, and every spontaneous NodeContainers
\* update keyed (UpdateContainerInfo, Unspecific) that the session receives
\* from the event bus produces a text frame with its list.
C18_WsFramesFollowNode ==
    [][/\ \A s \in Sessions :
            (/\ egress[s] = "running" /\ ~lagged[s] /\ server_cmd_rx[s] # <<>>
             /\ Head(server_cmd_rx[s]).envelope.payload = "ClientCommand"
             /\ is_match(auth_state[s], Head(server_cmd_rx[s]).id,
                         Head(server_cmd_rx[s]).password)
             /\ conn[s] = "open" /\ OutboundHasSpace(s)
             /\ EgressRecv(s))
                => outbound'[s] = Append(outbound[s], Head(server_cmd_rx[s]).envelope)
       /\ \A w \in WsSessions :
            (/\ ws[w].pc = "subscribed" /\ ~ws[w].lag /\ ws[w].rx # <<>>
             /\ Head(ws[w].rx).kind = "NodeContainers"
             /\ Head(ws[w].rx).request_key = RequestKey("UpdateContainerInfo", UnspecificId)
             /\ WsRecv(w))
                => ws'[w].frames = Append(ws[w].frames, TextFrame(Head(ws[w].rx).containers))
      ]_vars

\* C19: once a listener task has ended with an error, the assembly eventually
\* returns, and whenever it has returned after such an end it returned an
\* error.
C19_ExitsWhenEitherFails ==
    /\ \A h \in ListenerNames :
         (listeners[h] \in {"failed", "panicked"}) ~> (runner # "running")
    /\ []((runner # "running" /\ \E h \in ListenerNames : listeners[h] # "running")
            => runner = "err")

\* C20: a command of request id r is on the Command Bus, in an outbound
\* channel or known to a node only after the handler of r has inserted its
\* pending entry, and the entry of a call that has inserted stays in the
\* Pending Table for as long as nothing was sent on or dropped from its
\* one-shot channel.
C20_InsertBeforePublish ==
    \A r \in Requests :
        /\ (\E s \in Sessions :
              \/ r \in seen[s]
              \/ \E i \in 1..Len(outbound[s]) : outbound[s][i].request_id = r
              \/ \E i \in 1..Len(server_cmd_rx[s]) : server_cmd_rx[s][i].envelope.request_id = r
              \/ egress_hold[s].envelope.request_id = r)
            => rest[r].pc \in {"waiting", "timedout", "returned"}
        /\ (rest[r].pc \in {"inserted", "waiting"} /\ oneshot[r].state = "open")
            => PendingKey(r) \in pending

\* The node has read the command of a call that is still waiting, and the
\* entry the reply will look up is in the Pending Table.
C20_Witness ==
    /\ rest["R1"].pc = "waiting" /\ oneshot["R1"].state = "open"
    /\ "R1" \in seen["s1"]
    /\ PendingKey("R1") \in pending

\* C21: the auth state of a session changes only from unauthenticated to the
\* pair of the AuthRequest its ingress handles, and from that pair to drained
\* at the cleanup that ends ingress; it never changes from one pair to
\* another, and a session whose ingress has finished stays finished and
\* unauthenticated.
C21_AuthStateOneWay ==
    /\ [][\A s \in Sessions :
            auth_state'[s] # auth_state[s] =>
                \/ /\ auth_state[s] = AuthDefault
                   /\ ingress[s] = "running"
                   /\ \E k \in Creds :
                        /\ IngressRecv(s, AuthRequest(k))
                        /\ auth_state'[s] = authenticate(k[1], k[2])
                \/ /\ auth_state[s].id # None /\ auth_state[s].password # None
                   /\ auth_state'[s] = AuthDefault
                   /\ ingress'[s] = "done"]_vars
    /\ [][\A s \in Sessions : ingress[s] = "done" => ingress'[s] = "done"]_vars
    /\ [](\A s \in Sessions : ingress[s] = "done" => auth_state[s] = AuthDefault)

\* A session that had authenticated as n2/good has closed; its egress task is
\* not cancelled yet and its node's stream is gone.
C21_Witness ==
    /\ ingress["s1"] = "done" /\ auth_state["s1"] = AuthDefault
    /\ egress["s1"] = "running"
    /\ \E f \in forwarded : f.session = "s1" /\ f.auth = authenticate("n2", "good")

\* C22: every key of the Presence Registry is the pair of a session that
\* authenticated with it and has not finished its cleanup; an entry appears
\* only when an unauthenticated session handles an AuthRequest for its key,
\* disappears only at the ingress exit of a session authenticated with its
\* key, and the exit of an unauthenticated session leaves the registry alone.
C22_PresenceKeysAreLive ==
    /\ [](\A k \in Creds :
            nodes[k] # None =>
                \E s \in Sessions :
                    /\ auth_state[s] = authenticate(k[1], k[2])
                    /\ ingress[s] \in {"running", "blocked"})
    /\ [][\A k \in Creds :
            nodes'[k] # nodes[k] =>
                \/ \E s \in Sessions :
                     /\ auth_state[s] = AuthDefault
                     /\ IngressRecv(s, AuthRequest(k))
                     /\ nodes'[k] = s
                \/ \E s \in Sessions :
                     /\ auth_state[s] = authenticate(k[1], k[2])
                     /\ IngressExit(s)
                     /\ nodes'[k] = None]_vars
    /\ [][\A s \in Sessions :
            (auth_state[s] = AuthDefault /\ IngressExit(s)) => nodes' = nodes]_vars

\* Session s2 has closed without ever being forwarded a command while the
\* registry still holds the entry of session s1, which stays authenticated.
C22_Witness ==
    /\ ingress["s2"] = "done" /\ conn["s2"] = "ended"
    /\ nodes[<<"n1", "good">>] = "s1"
    /\ auth_state["s1"] = authenticate("n1", "good")
    /\ nodes[<<"n1", "bad">>] = None

\* C23: once the ingress task of a session has finished, its egress task is
\* eventually cancelled and stays so, and from the end of ingress on nothing
\* is placed on that session's outbound channel, whatever is published for
\* the credentials it had.
C23_NoRoutingAfterClose ==
    /\ \A s \in Sessions : (ingress[s] = "done") ~> (egress[s] = "stopped")
    /\ [][\A s \in Sessions :
            ingress[s] = "done" =>
                /\ outbound'[s] = outbound[s]
                /\ {f \in forwarded' : f.session = s} = {f \in forwarded : f.session = s}
                /\ egress[s] = "stopped" => egress'[s] = "stopped"]_vars

\* The session that was forwarded call R1 as n1/good has closed and its
\* egress is cancelled; call R2, published for n1/good after the close, waits
\* and was forwarded nowhere.
C23_Witness ==
    /\ ingress["s1"] = "done" /\ egress["s1"] = "stopped"
    /\ ForwardedTo("R1") = {"s1"}
    /\ rest["R2"].pc = "waiting" /\ rest["R2"].present = {}
    /\ rest["R2"].node_id = "n1" /\ rest["R2"].password = "good"
    /\ ForwardedTo("R2") = {}

C25_StatusOnlyWhenAuthenticated ==
    /\ [][\A s \in Sessions :
            IngressRecv(s, GetServerStatus) =>
                IF auth_state[s].id # None /\ auth_state[s].password # None
                THEN /\ UNCHANGED <<auth_state, nodes, pending, oneshot>>
                     /\ \/ outbound'[s] = Append(outbound[s], ServerStatusEnvelope)
                        \/ /\ ~OutboundHasSpace(s)
                           /\ ingress'[s] = "blocked" /\ outbound' = outbound
                ELSE UNCHANGED vars]_vars
    /\ [][\A s \in Sessions :
            (IngressResume(s) /\ conn[s] = "open") =>
                outbound'[s] = Append(outbound[s], ServerStatusEnvelope)]_vars
    /\ [](\A s \in Sessions :
            (\/ ingress[s] = "blocked"
             \/ \E i \in 1..Len(outbound[s]) : outbound[s][i] = ServerStatusEnvelope)
                => (auth_state[s].id # None /\ auth_state[s].password # None))

\* The ServerStatus reply of an authenticated, registered session is in its
\* outbound channel while a call is pending.
C25_Witness ==
    /\ outbound["s1"] = <<ServerStatusEnvelope>>
    /\ auth_state["s1"] = authenticate("n1", "good")
    /\ nodes[<<"n1", "good">>] = "s1"
    /\ pending # {}

\* C26: an inbound envelope with no payload, or with a NodeCommand or a
\* ServerResponse payload, is ignored by ingress: the step changes nothing,
\* and the session's stream and tasks are as they were.
C26_OtherEnvelopesIgnored ==
    [][\A s \in Sessions : \A e \in OtherEnvelopes :
         IngressRecv(s, e) =>
            /\ UNCHANGED <<auth_state, nodes, pending, oneshot, deliveries, ws, outbound>>
            /\ conn'[s] = "open" /\ ingress'[s] = "running" /\ egress'[s] = egress[s]]_vars

\* An authenticated, registered session observed by a subscribed WebSocket
\* session, with a call pending and a command in its outbound channel, is
\* handed a NodeCommand envelope by its node.
C26_Witness ==
    /\ auth_state["s1"] = authenticate("n1", "good")
    /\ nodes[<<"n1", "good">>] = "s1"
    /\ ws["w1"].pc = "subscribed" /\ ws["w1"].bus = "s1"
    /\ pending # {} /\ outbound["s1"] # <<>>
    /\ ENABLED IngressRecv("s1", [payload |-> "NodeCommand", kind |-> "StartContainer"])

\* C27: the egress task of a session never waits for space in the outbound
\* channel: a matching command it receives while the channel is full is
\* dropped, the channel is unchanged and the task goes on with the next
\* Command Bus message.
C27_FullOutboundDropsCommand ==
    /\ [](\A s \in Sessions : egress[s] # "blocked")
    /\ [][\A s \in Sessions :
            (/\ egress[s] = "running" /\ ~lagged[s] /\ server_cmd_rx[s] # <<>>
             /\ ShouldForward(auth_state[s], Head(server_cmd_rx[s]))
             /\ conn[s] = "open" /\ ~OutboundHasSpace(s)
             /\ EgressRecv(s)) =>
                /\ outbound'[s] = outbound[s]
                /\ egress'[s] = "running"
                /\ server_cmd_rx'[s] = Tail(server_cmd_rx[s])]_vars

\* C28: an authenticated session whose ingress task is waiting for its next
\* inbound envelope can always handle a spontaneous update, however many
\* envelopes its subscribers have not read, and is not parked by doing so; a
\* subscriber that is a full channel behind loses its oldest envelope, is
\* marked lagged, and on its next receive gets the lag signal, writes no
\* frame and stays subscribed.
C28_PublishNeverBlocksIngress ==
    /\ [](\A s \in Sessions :
            (/\ conn[s] = "open" /\ ingress[s] = "running" /\ AuthLockFree(s)
             /\ auth_state[s].id # None /\ auth_state[s].password # None)
                => ENABLED IngressRecv(s, SpontaneousUpdate))
    /\ [][\A s \in Sessions :
            (/\ auth_state[s].id # None /\ auth_state[s].password # None
             /\ IngressRecv(s, SpontaneousUpdate)) =>
                /\ ingress'[s] = "running"
                /\ \A w \in WsSessions :
                     (/\ ws[w].pc = "subscribed"
                      /\ ws[w].bus = nodes[<<auth_state[s].id, auth_state[s].password>>]
                      /\ Len(ws[w].rx) >= NODE_CHANNEL_CAPACITY) =>
                        /\ ws'[w].lag
                        /\ ws'[w].rx = Append(Tail(ws[w].rx), SpontaneousUpdate)]_vars
    /\ [][\A w \in WsSessions :
            (ws[w].pc = "subscribed" /\ ws[w].lag /\ WsRecv(w)) =>
                /\ ws'[w].pc = "subscribed" /\ ~ws'[w].lag
                /\ ws'[w].frames = ws[w].frames /\ ws'[w].rx = ws[w].rx]_vars

\* A subscribed WebSocket session has been overrun by the updates of its
\* node, whose session is open and waiting for the next inbound envelope.
C28_Witness ==
    /\ ws["w1"].pc = "subscribed" /\ ws["w1"].bus = "s1" /\ ws["w1"].lag
    /\ Head(ws["w1"].rx) = SpontaneousUpdate
    /\ conn["s1"] = "open" /\ ingress["s1"] = "running"

\* C29: a WebSocket session sends its priming command on the Command Bus only
\* when it already holds a receiver of the node's event bus, so that nothing
\* sent on that bus after the priming command can miss the session.
C29_SubscribeBeforePrime ==
    /\ [][\A w \in WsSessions : WsPrime(w) => w \in BusReceivers(ws[w].bus)]_vars
    /\ [](\A w \in WsSessions : \A s \in Sessions :
            (\E i \in 1..Len(server_cmd_rx[s]) :
                server_cmd_rx[s][i].envelope = GetClientContainers(w))
                => ws[w].pc \in {"subscribed", "closed"})

\* C30: for an envelope a WebSocket session receives from the event bus, it
\* writes one text frame with the envelope's container list if the envelope is
\* a NodeResponse/NodeContainers whose request type is GetContainers or
\* UpdateContainerInfo, and writes nothing otherwise; in both cases it stays
\* subscribed.
C30_TextFrameIffContainers ==
    [][\A w \in WsSessions :
         (ws[w].pc = "subscribed" /\ ~ws[w].lag /\ ws[w].rx # <<>> /\ WsRecv(w)) =>
            LET e == Head(ws[w].rx) IN
            /\ ws'[w].pc = "subscribed"
            /\ ws'[w].frames =
                 IF /\ e.payload = "NodeResponse" /\ e.kind = "NodeContainers"
                    /\ e.request_key.request_type \in {"GetContainers", "UpdateContainerInfo"}
                 THEN Append(ws[w].frames, TextFrame(e.containers))
                 ELSE ws[w].frames]_vars

\* C31: a subscribed WebSocket session stays subscribed after a lag signal
\* and after a Ping, text or binary message of its client; it ends on a Close
\* message and at the end of the client's stream; and whenever it ends, the
\* client sent Close or its stream ended, or the event bus was closed, or the
\* write of a container frame failed.
C31_WsLoopEndsOnlyOnClose ==
    /\ [][\A w \in WsSessions :
            /\ (ws[w].lag /\ WsRecv(w)) => ws'[w].pc = "subscribed"
            /\ \A msg \in {"Ping", "Text", "Binary"} :
                 WsClientMessage(w, msg) => ws'[w].pc = "subscribed"
            /\ \A msg \in {"Close", "None"} :
                 WsClientMessage(w, msg) => ws'[w].pc = "closed"]_vars
    /\ [][\A w \in WsSessions :
            (ws[w].pc = "subscribed" /\ ws'[w].pc # "subscribed") =>
                \/ WsClientClose(w)
                \/ \E msg \in {"Close", "None"} : WsClientMessage(w, msg)
                \/ BusClosed(w)
                \/ ws[w].rx # <<>> /\ EndsOnSendFailure(Head(ws[w].rx))]_vars

\* A subscribed session has answered two Pings and has been overrun by its
\* node's updates; it is still subscribed.
C31_Witness ==
    /\ ws["w1"].pc = "subscribed" /\ ws["w1"].lag
    /\ ws["w1"].frames = <<PongFrame, PongFrame>>

\* C32: a reply is delivered on the one-shot channel of call r only by a
\* session authenticated with exactly the credentials r was published with,
\* whatever request key the other sessions put in their responses.
C32_OnlyMatchingSessionCompletes ==
    [][\A s \in Sessions : \A r \in Requests :
         rest[r].pc # "idle" =>
            \A e \in RepliesTo(r, rest[r].endpoint) :
                (IngressRecv(s, e) /\ deliveries'[r] # deliveries[r]) =>
                    auth_state[s] = authenticate(rest[r].node_id, rest[r].password)]_vars

\* C33: a NodeResponse handled on a session that has not authenticated
\* changes nothing: no pending entry is removed or completed and nothing is
\* sent on an event bus, even when the response quotes the key of a pending
\* call.
C33_UnauthenticatedResponseIgnored ==
    [][\A s \in Sessions : \A r \in Requests :
         (auth_state[s] = AuthDefault /\ rest[r].pc # "idle") =>
            \A e \in RepliesTo(r, rest[r].endpoint) \cup {SpontaneousUpdate} :
                IngressRecv(s, e) =>
                    UNCHANGED <<pending, oneshot, deliveries, ws, auth_state, nodes,
                                outbound>>]_vars

\* An open session that never authenticated knows the request id of a call
\* that is waiting with its entry in the Pending Table, and can send a reply
\* with that key.
C33_Witness ==
    /\ conn["s2"] = "open" /\ auth_state["s2"] = AuthDefault
    /\ "R1" \in seen["s2"]
    /\ rest["R1"].pc = "waiting" /\ oneshot["R1"].state = "open"
    /\ PendingKey("R1") \in pending
    /\ ENABLED IngressRecv("s2", NodeResponse("ContainerAction",
                                  RequestKey("StartContainer", ValueId("R1")), <<>>, ""))

\* C34: no step both completes a pending entry (removes it, or sends on its
\* one-shot channel) and sends on an event bus: a NodeResponse that finds its
\* entry is not published, and one that is published leaves the Pending Table
\* and the one-shot channels alone.
C34_DeliverOrPublish ==
    [][/\ (pending' # pending \/ oneshot' # oneshot \/ deliveries' # deliveries)
            => ws' = ws
       /\ (\E w \in WsSessions : ws'[w].rx # ws[w].rx /\ Len(ws'[w].rx) >= Len(ws[w].rx)
                                  /\ ws[w].pc = "subscribed" /\ ws'[w].pc = "subscribed")
            => UNCHANGED <<pending, oneshot, deliveries>>]_vars

\* The reply of call R1 has been delivered to its caller while a WebSocket
\* session subscribed to the same node's bus holds only the node's
\* spontaneous update.
C34_Witness ==
    /\ deliveries["R1"] = 1 /\ oneshot["R1"].state = "sent"
    /\ ws["w1"].pc = "subscribed" /\ ws["w1"].bus = "s1"
    /\ ws["w1"].rx = <<SpontaneousUpdate>> /\ ~ws["w1"].lag

\* C35: the egress task of a session stops only when its send on the outbound
\* channel fails (the response stream is gone) or when the supervisor cancels
\* it; in particular it never stops because its Command Bus receiver lagged,
\* and it is running for as long as the session is authenticated and open.
C35_EgressSurvivesLag ==
    /\ [][\A s \in Sessions :
            (egress[s] \in {"running", "blocked"} /\ egress'[s] = "stopped") =>
                \/ conn[s] = "ended"
                \/ Supervisor(s)]_vars
    /\ [](\A s \in Sessions :
            (/\ conn[s] = "open"
             /\ auth_state[s].id # None /\ auth_state[s].password # None)
                => egress[s] # "stopped")

\* C36: the auth mutex of a session is never held across a wait on its
\* outbound channel: while the stream is open and ingress is waiting for its
\* next inbound envelope, ingress can handle that envelope, also when egress
\* is waiting for space in the full outbound channel.
C36_IngressNotBlockedByEgress ==
    \A s \in Sessions :
        (conn[s] = "open" /\ ingress[s] = "running") =>
            /\ AuthLockFree(s)
            /\ ENABLED IngressRecv(s, SpontaneousUpdate)

\* C37: once the session whose event bus a WebSocket session is subscribed to
\* has finished its cleanup and the Presence Registry no longer stores that
\* bus's sender, the WebSocket session eventually ends, whether or not its
\* client closes the socket.
C37_WsEndsAfterNodeGone ==
    \A w \in WsSessions :
        (/\ ws[w].pc = "subscribed"
         /\ ingress[ws[w].bus] = "done"
         /\ \A k \in Creds : nodes[k] # ws[w].bus)
            ~> (ws[w].pc = "closed")

\* C38: whenever a session authenticated under some credentials can handle
\* a spontaneous container update, handling it appends the update to the
\* receiver of every subscribed WebSocket session opened for the same
\* credentials whose receiver has not lagged and has room, whether that
\* session authenticated before or after the WebSocket session subscribed.
C38_WsSeesEveryUpdateOfItsKey ==
    \A s \in Sessions : \A w \in WsSessions :
        (/\ ws[w].pc = "subscribed"
         /\ ~ws[w].lag /\ Len(ws[w].rx) < NODE_CHANNEL_CAPACITY
         /\ auth_state[s].id = ws[w].id /\ auth_state[s].password = ws[w].password
         /\ ENABLED IngressRecv(s, SpontaneousUpdate)) =>
            ENABLED (/\ IngressRecv(s, SpontaneousUpdate)
                     /\ ws'[w].rx = Append(ws[w].rx, SpontaneousUpdate))

\* C39: every step in which the node agent reads a NodeCommand from its
\* stream, whatever the container engine returns, appends exactly one
\* NodeResponse to tx_out: the typed reply of the command's endpoint or an
\* Error, keyed Value(request_id) of the command and the request_type of the
\* pending entry the REST handler registered for it.
C39_AgentAnswersOnce ==
    [][\A s \in Sessions : \A outcome \in EngineOutcomes :
         (/\ outbound[s] # <<>>
          /\ Head(outbound[s]).payload = "NodeCommand"
          /\ AgentRecv(s, outcome)) =>
             LET r == Head(outbound[s]).request_id
                 ep == rest[r].endpoint
             IN
             /\ Len(tx_out'[s]) = Len(tx_out[s]) + 1
             /\ LET answer == tx_out'[s][Len(tx_out'[s])] IN
                /\ answer.payload = "NodeResponse"
                /\ answer.kind \in {EndpointReplyKind(ep), "Error"}
                /\ answer.request_key = RequestKey(EndpointRequestType(ep), ValueId(r))]_vars

====
